---- MODULE Spec2Model ----
(***************************************************************************)
(* behave/runner.py: the layered execution context (class Context) as a    *)
(* state machine.  The store is a stack of frames (frame 0 = stack[1] here,*)
(* the root frame is the last one), a provenance table (_record), an       *)
(* origin table (_origin) and the current writer mode (_mode).             *)
(*                                                                         *)
(* Modelling conventions                                                   *)
(*  - a frame is [vals |-> partial function Names -> Values,               *)
(*                cleanups |-> sequence of registered cleanup entries];    *)
(*  - _record holds a source location per name; only its key set decides   *)
(*    control flow (a lookup of a missing key raises KeyError), so the     *)
(*    model keeps the key set;                                             *)
(*  - every operation is one action; what the caller observes (exception,  *)
(*    returned value, warnings passed to warnings.warn, cleanup functions  *)
(*    called) is written to "last";                                        *)
(*  - cleanup functions and the cleanup error handler are opaque callables:*)
(*    a cleanup either returns or raises an Exception (fixed per function),*)
(*    the error handler returns (print_cleanup_error/ignore_cleanup_error);*)
(*  - fail_on_cleanup_errors and cleanup_errors live in the root frame; the *)
(*    model keeps them as variables of their own;                          *)
(*  - _push/_pop are used in pairs by their callers (scoped_context_layer),*)
(*    so the root frame is never popped.                                   *)
(***************************************************************************)
EXTENDS Integers, Sequences, FiniteSets, TLC

VARIABLES
    stack,                  \* Context._stack
    record,                 \* keys of Context._record
    origin,                 \* Context._origin
    mode,                   \* Context._mode
    saved,                  \* current_mode of each open use_context_with_mode block
    verbose,                \* config.verbose
    fail_on_cleanup_errors, \* Context.fail_on_cleanup_errors
    cleanup_errors,         \* _root["cleanup_errors"]
    last,                   \* what the caller of the last operation observed
    config,                 \* ModelRunner.config: dry_run, stop
    hooks,                  \* keys of ModelRunner.hooks
    hook_failures,          \* ModelRunner.hook_failures
    undefined_steps,        \* len(ModelRunner.undefined_steps)
    entities,               \* the model elements handed to hooks
    features,               \* number of features of the collection
    pc,                     \* position of run_model
    loc,                    \* local variables of run_model
    events,                 \* calls made to the collaborators, in order
    dict                    \* __dict__ of the context: the names with the
                            \* reserved prefix assigned by its users

ctxVars == <<stack, record, origin, mode, saved, verbose,
             fail_on_cleanup_errors, cleanup_errors, last>>

runnerVars == <<config, hooks, hook_failures, undefined_steps, entities>>

runVars == <<features, pc, loc, events>>

vars == <<stack, record, origin, mode, saved, verbose, fail_on_cleanup_errors,
          cleanup_errors, last, config, hooks, hook_failures, undefined_steps,
          entities, features, pc, loc, events, dict>>

----------------------------------------------------------------------------
(* Bounds *)

MaxDepth == 3
MaxNest == 1
MaxCleanups == 2
MaxErrors == 2
MaxHookFailures == 2
MaxFeatures == 2
MaxSteps == 2

----------------------------------------------------------------------------
(* Constants of the program *)

BEHAVE == "behave"
USER == "user"
Modes == {BEHAVE, USER}

\* Attribute names.  "aborted" stands for the names __init__ puts into the root
\* dict literally (aborted, failed, config, active_outline): no _record and no
\* _origin entry.  "feature" stands for the names __init__ assigns through
\* __setattr__ (feature, text, table, *_capture): in the root frame with a
\* _record entry and origin BEHAVE.  "x" is any other name.
\* The operations are exercised on Names; "feature" stays as __init__ left it
\* (a BEHAVE-mode write of "x" at the root level gives "x" the same standing).
PrepopulatedNames == {"aborted"}
InitAssignedNames == {"feature"}
Names == {"aborted", "x"}
Values == {0, 1}
NoVal == 0 - 1

\* Cleanup functions: "ok" returns, "bad1" and "bad2" raise an Exception.
CleanupFuncs == {"ok", "bad1", "bad2"}
Raises(f) == f \in {"bad1", "bad2"}

EmptyVals == [k \in {} |-> 0]
Put(f, n, v) == [k \in (DOMAIN f) \cup {n} |-> IF k = n THEN v ELSE f[k]]
Drop(f, n) == [k \in (DOMAIN f) \ {n} |-> f[k]]

NoObs == [op |-> "init", name |-> "-", val |-> NoVal, out |-> "ok",
          warns |-> <<>>, calls |-> <<>>, handled |-> <<>>, err |-> "-"]
Obs(op, n, v, out, w) == [op |-> op, name |-> n, val |-> v, out |-> out,
                          warns |-> w, calls |-> <<>>, handled |-> <<>>,
                          err |-> "-"]

----------------------------------------------------------------------------
(* Context.__init__ *)

RootFrame == [vals |-> [k \in PrepopulatedNames \cup InitAssignedNames |-> 0],
              cleanups |-> <<>>]

\* Context.__init__, but for config.verbose
InitContext ==
    /\ stack = <<RootFrame>>
    /\ record = InitAssignedNames
    /\ origin = [k \in InitAssignedNames |-> BEHAVE]
    /\ mode = BEHAVE
    /\ saved = <<>>
    /\ fail_on_cleanup_errors = TRUE
    /\ cleanup_errors = 0
    /\ last = NoObs
    /\ dict = EmptyVals

\* The hook names of the runner
HookNames == {"before_all", "after_all", "before_feature", "after_feature",
              "before_scenario", "after_scenario", "before_step", "after_step",
              "before_tag", "after_tag"}

\* The model elements: hook_failed, error_message (the diagnostics it holds,
\* "" being the empty sequence) and whether store_exception_context was called
EntityNames == {"feature", "scenario", "step"}
FreshEntity == [hook_failed |-> FALSE, error_message |-> <<>>,
                exc_context |-> FALSE]

\* run_model has not been entered.  idx is the position of the for loop,
\* failed the value returned, and entry_size records len(undefined_steps) as
\* run_model found it when it was called.
NoLocals == [idx |-> 0, run_feature |-> FALSE, failed_count |-> 0,
             undefined_steps_initial_size |-> 0, cleanups_failed |-> FALSE,
             failed |-> FALSE, entry_size |-> 0]

\* ModelRunner.__init__ with an empty collection and no hooks loaded
InitRunner ==
    /\ config = [dry_run |-> FALSE, stop |-> FALSE]
    /\ hooks = {}
    /\ hook_failures = 0
    /\ undefined_steps = 0
    /\ entities = [e \in EntityNames |-> FreshEntity]
    /\ features = 0
    /\ pc = "idle"
    /\ loc = NoLocals
    /\ events = <<>>

Init ==
    /\ InitContext
    /\ verbose \in BOOLEAN
    /\ InitRunner

----------------------------------------------------------------------------
(* Context._emit_warning: the message class, "" when no warning is issued *)

\* Variant: the verbose setting is not consulted.
EmitWarningIgnoringVerbose(m, org, verb) ==
    IF m = BEHAVE /\ org # BEHAVE THEN "behave_masks_user"
    ELSE IF m = USER THEN
        IF org # USER THEN "user_masks_behave" ELSE "user_masks_user"
    ELSE ""

EmitWarning(m, org, verb) ==
    IF m = BEHAVE /\ org # BEHAVE THEN "behave_masks_user"
    ELSE IF m = USER THEN
        IF org # USER THEN "user_masks_behave"
        ELSE IF verb THEN "user_masks_user"
        ELSE ""
    ELSE ""

\* The frames of stk at the given positions that hold n, in stack order.
Holders(stk, idx, n) == {i \in idx : n \in DOMAIN stk[i].vals}

\* One _emit_warning call per frame that holds n (the loops of __setattr__
\* and _set_root_attribute do not stop at the first hit): the sequence of
\* warnings handed to warnings.warn.
WarningsFor(hits, m, org, verb) ==
    IF EmitWarning(m, org, verb) = "" THEN <<>>
    ELSE [i \in 1..hits |-> EmitWarning(m, org, verb)]

----------------------------------------------------------------------------
(* Context.__getattr__ for a name without the reserved prefix *)

\* Variant: a missing name reads as a default value instead of failing.
GetattrWithDefault(stk, n) ==
    LET hs == Holders(stk, 1..Len(stk), n)
    IN IF hs = {} THEN [out |-> "ok", val |-> 0]
       ELSE [out |-> "ok",
             val |-> stk[CHOOSE i \in hs : \A j \in hs : i <= j].vals[n]]

Getattr(stk, n) ==
    LET hs == Holders(stk, 1..Len(stk), n)
    IN IF hs = {} THEN [out |-> "AttributeError", val |-> NoVal]
       ELSE [out |-> "ok",
             val |-> stk[CHOOSE i \in hs : \A j \in hs : i <= j].vals[n]]

Get(n) ==
    /\ UNCHANGED <<runnerVars, runVars, dict>>
    /\ /\ last' = Obs("get", n, Getattr(stack, n).val, Getattr(stack, n).out, <<>>)
       /\ UNCHANGED <<stack, record, origin, mode, saved, verbose,
                      fail_on_cleanup_errors, cleanup_errors>>

----------------------------------------------------------------------------
(* Context.__setattr__ for a name without the reserved prefix *)

\* The frames scanned for an existing value: self._stack[1:]
OuterFrames(stk) == 2..Len(stk)

\* Variant: every write records the mode of the writer.
OriginOverwritten(org, n, m) == Put(org, n, m)

\* "if attr not in self._origin: self._origin[attr] = self._mode"
OriginRecorded(org, n, m) == IF n \in DOMAIN org THEN org ELSE Put(org, n, m)

Setattr(n, v) ==
    LET hits == Cardinality(Holders(stack, OuterFrames(stack), n))
    IN IF hits > 0 /\ (n \notin record \/ n \notin DOMAIN origin)
       THEN \* self._record[attr] (or self._origin[attr]) raises KeyError
            /\ last' = Obs("set", n, v, "KeyError", <<>>)
            /\ UNCHANGED <<stack, record, origin>>
       ELSE /\ stack' = [stack EXCEPT ![1].vals = Put(@, n, v)]
            /\ record' = record \cup {n}
            /\ origin' = OriginRecorded(origin, n, mode)
            /\ last' = Obs("set", n, v, "ok",
                           IF hits = 0 THEN <<>>
                           ELSE WarningsFor(hits, mode, origin[n], verbose))

Set(n, v) ==
    /\ UNCHANGED <<runnerVars, runVars, dict>>
    /\ /\ Setattr(n, v)
       /\ UNCHANGED <<mode, saved, verbose, fail_on_cleanup_errors, cleanup_errors>>

----------------------------------------------------------------------------
(* Context._set_root_attribute *)

\* The frames scanned: every frame of _stack that is not _root
NonRootFrames(stk) == 1..(Len(stk) - 1)

SetRootAttribute(n, v) ==
    /\ UNCHANGED <<runnerVars, runVars, dict>>
    /\ LET hits == Cardinality(Holders(stack, NonRootFrames(stack), n))
       IN /\ IF hits > 0 /\ (n \notin record \/ n \notin DOMAIN origin)
             THEN /\ last' = Obs("set_root", n, v, "KeyError", <<>>)
                  /\ UNCHANGED <<stack, origin>>
             ELSE /\ stack' = [stack EXCEPT ![Len(stack)].vals = Put(@, n, v)]
                  /\ origin' = IF n \in DOMAIN origin THEN origin
                               ELSE Put(origin, n, mode)
                  /\ last' = Obs("set_root", n, v, "ok",
                                 IF hits = 0 THEN <<>>
                                 ELSE WarningsFor(hits, mode, origin[n], verbose))
          /\ UNCHANGED <<record, mode, saved, verbose, fail_on_cleanup_errors,
                         cleanup_errors>>

----------------------------------------------------------------------------
(* Context.__delattr__ *)

\* Variant: the name is looked up in every frame.
AtAnyLevel(stk, n) == \E i \in 1..Len(stk) : n \in DOMAIN stk[i].vals

\* "if attr in frame" with frame = self._stack[0]
AtCurrentLevel(stk, n) == n \in DOMAIN stk[1].vals

Delattr(n) ==
    IF AtCurrentLevel(stack, n)
    THEN /\ stack' = [stack EXCEPT ![1].vals = Drop(@, n)]
         /\ IF n \in record
            THEN /\ record' = record \ {n}
                 /\ last' = Obs("del", n, NoVal, "ok", <<>>)
            ELSE \* del self._record[attr] raises KeyError, after del frame[attr]
                 /\ record' = record
                 /\ last' = Obs("del", n, NoVal, "KeyError", <<>>)
    ELSE /\ last' = Obs("del", n, NoVal, "AttributeError", <<>>)
         /\ UNCHANGED <<stack, record>>

Del(n) ==
    /\ UNCHANGED <<runnerVars, runVars, dict>>
    /\ /\ Delattr(n)
       /\ UNCHANGED <<origin, mode, saved, verbose, fail_on_cleanup_errors,
                      cleanup_errors>>

----------------------------------------------------------------------------
(* Context._push *)

Push ==
    /\ UNCHANGED <<runnerVars, runVars, dict>>
    /\ /\ Len(stack) < MaxDepth
       /\ stack' = <<[vals |-> EmptyVals, cleanups |-> <<>>]>> \o stack
       /\ last' = Obs("push", "-", NoVal, "ok", <<>>)
       /\ UNCHANGED <<record, origin, mode, saved, verbose,
                      fail_on_cleanup_errors, cleanup_errors>>

----------------------------------------------------------------------------
(* Context.add_cleanup *)

\* A registered entry: the function itself (wrapped = FALSE), or a fresh
\* internal_cleanup_func closure around it when call arguments were given.
\* owner is an observation field, not data of the code: the depth of the
\* stack when the entry was registered, which names the frame that was
\* innermost then.
Entry(f, hasArgs, owner) == [f |-> f, wrapped |-> hasArgs, owner |-> owner]

\* "cleanup_func not in current_frame['@cleanups']": list membership compares
\* the function with the registered objects; a closure equals no function.
Registered(cleanups, f) ==
    \E i \in 1..Len(cleanups) : cleanups[i].f = f /\ ~cleanups[i].wrapped

\* Variant: the cleanup is registered on the root frame.
CurrentFrameRoot(stk) == Len(stk)

\* current_frame = self._stack[0]: the index of the frame add_cleanup
\* registers on
CurrentFrame(stk) == 1

TotalCleanups(stk) ==
    LET RECURSIVE Sum(_)
        Sum(i) == IF i = 0 THEN 0 ELSE Len(stk[i].cleanups) + Sum(i - 1)
    IN Sum(Len(stk))

AddCleanup(f, hasArgs) ==
    /\ UNCHANGED <<runnerVars, runVars, dict>>
    /\ /\ TotalCleanups(stack) < MaxCleanups
       /\ stack' = IF Registered(stack[CurrentFrame(stack)].cleanups, f)
                   THEN stack
                   ELSE [stack EXCEPT ![CurrentFrame(stack)].cleanups =
                            Append(@, Entry(f, hasArgs, Len(stack)))]
       /\ last' = Obs("add_cleanup", f, NoVal, "ok", <<>>)
       /\ UNCHANGED <<record, origin, mode, saved, verbose,
                      fail_on_cleanup_errors, cleanup_errors>>

----------------------------------------------------------------------------
(* Context._do_cleanups and Context._pop *)

Reverse(s) == [i \in 1..Len(s) |-> s[Len(s) + 1 - i]]

\* Variant: the cleanup functions are called in registration order.
CleanupCallsInOrder(frame) == [i \in 1..Len(frame.cleanups) |->
                                  frame.cleanups[i].f]

\* The cleanup functions called, in call order: reversed(cleanup_funcs)
CleanupCalls(frame) == [i \in 1..Len(frame.cleanups) |->
                            Reverse(frame.cleanups)[i].f]

\* cleanup_errors: the calls that raised, in call order
CleanupFailures(frame) == SelectSeq(CleanupCalls(frame), Raises)

\* on_cleanup_error(context, cleanup_func, e): one call in each except block
HandlerCalls(frame) == CleanupFailures(frame)

\* Variant: _do_cleanups never re-raises.
DoCleanupsNeverRaises(frame, strict) == FALSE

\* "if self.fail_on_cleanup_errors and cleanup_errors": _do_cleanups re-raises
DoCleanupsRaises(frame, strict) == strict /\ CleanupFailures(frame) # <<>>

\* Variant: the last captured failure is re-raised.
ReraisedLast(failures) == failures[Len(failures)]

\* first_cleanup_erro_info = cleanup_errors[0]: the failure re-raised
Reraised(failures) == failures[1]

\* Variant: the frame removed is the last one of the stack.
PopStackOuter(stk, raised) == SubSeq(stk, 1, Len(stk) - 1)

\* Variant: no finally clause, the frame stays when _do_cleanups raises.
PopStackUnlessRaised(stk, raised) == IF raised THEN stk ELSE Tail(stk)

\* The stack _pop leaves behind: the finally clause removes frame 0 whether or
\* not _do_cleanups raised.
PopStack(stk, raised) == Tail(stk)

Pop ==
    /\ UNCHANGED <<runnerVars, runVars, dict>>
    /\ /\ Len(stack) > 1
       /\ cleanup_errors + Len(CleanupFailures(stack[1])) <= MaxErrors
       /\ cleanup_errors' = cleanup_errors + Len(CleanupFailures(stack[1]))
       /\ stack' = PopStack(stack,
                            DoCleanupsRaises(stack[1], fail_on_cleanup_errors))
       /\ last' = [op |-> "pop", name |-> "-", val |-> NoVal,
                   out |-> IF DoCleanupsRaises(stack[1], fail_on_cleanup_errors)
                           THEN "CleanupError" ELSE "ok",
                   warns |-> <<>>,
                   calls |-> CleanupCalls(stack[1]),
                   handled |-> HandlerCalls(stack[1]),
                   err |-> IF DoCleanupsRaises(stack[1], fail_on_cleanup_errors)
                           THEN Reraised(CleanupFailures(stack[1])) ELSE "-"]
       /\ UNCHANGED <<record, origin, mode, saved, verbose,
                      fail_on_cleanup_errors>>

\* self.context._do_cleanups() as run_model calls it when the features are
\* done: the root frame is drained and stays, with its list of cleanups.
DoCleanups ==
    /\ UNCHANGED <<runnerVars, runVars, dict>>
    /\ /\ Len(stack) = 1
       /\ cleanup_errors + Len(CleanupFailures(stack[1])) <= MaxErrors
       /\ cleanup_errors' = cleanup_errors + Len(CleanupFailures(stack[1]))
       /\ last' = [op |-> "do_cleanups", name |-> "-", val |-> NoVal,
                   out |-> IF DoCleanupsRaises(stack[1], fail_on_cleanup_errors)
                           THEN "CleanupError" ELSE "ok",
                   warns |-> <<>>,
                   calls |-> CleanupCalls(stack[1]),
                   handled |-> HandlerCalls(stack[1]),
                   err |-> IF DoCleanupsRaises(stack[1], fail_on_cleanup_errors)
                           THEN Reraised(CleanupFailures(stack[1])) ELSE "-"]
       /\ UNCHANGED <<stack, record, origin, mode, saved, verbose,
                      fail_on_cleanup_errors>>

----------------------------------------------------------------------------
(* use_context_with_mode: entering and leaving a with-block *)

\* Variant: the with-block leaves the store in BEHAVE mode.
RestoredToBehave(sv) == BEHAVE

\* "context._mode = current_mode" in the finally clause of
\* use_context_with_mode: sv holds the current_mode of the open blocks
Restored(sv) == sv[Len(sv)]

EnterMode(m) ==
    /\ UNCHANGED <<runnerVars, runVars, dict>>
    /\ /\ Len(saved) < MaxNest
       /\ saved' = Append(saved, mode)
       /\ mode' = m
       /\ last' = Obs("enter_mode", "-", NoVal, "ok", <<>>)
       /\ UNCHANGED <<stack, record, origin, verbose, fail_on_cleanup_errors,
                      cleanup_errors>>

ExitMode ==
    /\ UNCHANGED <<runnerVars, runVars, dict>>
    /\ /\ saved # <<>>
       /\ mode' = Restored(saved)
       /\ saved' = SubSeq(saved, 1, Len(saved) - 1)
       /\ last' = Obs("exit_mode", "-", NoVal, "ok", <<>>)
       /\ UNCHANGED <<stack, record, origin, verbose, fail_on_cleanup_errors,
                      cleanup_errors>>

----------------------------------------------------------------------------
(* ModelRunner.run_hook *)

\* What the hook callable does when called: it returns, it raises an
\* Exception, or it raises KeyboardInterrupt (not an Exception)
HookOutcomes == {"returns", "raises", "interrupt"}

\* Variant: only a dry run keeps the hook from being called.
DispatchedUnlessDryRun(cfg, hks, name) == ~cfg.dry_run

\* "if not self.config.dry_run and (name in self.hooks)"
Dispatched(cfg, hks, name) == ~cfg.dry_run /\ name \in hks

\* '"tag" in name'
IsTagHook(name) == name \in {"before_tag", "after_tag"}

\* Variant: every hook is treated as before_all/after_all are.
IsAnyHook(name) == name \in HookNames

\* '"all" in name', tested after '"tag" in name'
IsAllHook(name) == name \in {"before_all", "after_all"}

\* args[0] of the call: the feature, scenario or step the hook is about; a tag
\* hook gets the tag (a string), before_all and after_all get nothing
HookArg(name) ==
    CASE name \in {"before_feature", "after_feature"} -> "feature"
      [] name \in {"before_scenario", "after_scenario"} -> "scenario"
      [] name \in {"before_step", "after_step"} -> "step"
      [] OTHER -> "none"

\* A value of the store read as an object: 1 under the name "scenario" is the
\* scenario, 1 under "feature" is the feature, 0 is None
AsEntity(n, v) == IF v = 1 THEN n ELSE "none"

\* Variant: the feature is preferred to the scenario.
TagStatementFeatureFirst(stk) ==
    IF Getattr(stk, "feature").val = 1 THEN "feature"
    ELSE AsEntity("scenario", Getattr(stk, "scenario").val)

\* getattr(context, "scenario", context.feature)
TagStatement(stk) ==
    IF Getattr(stk, "scenario").out = "ok"
    THEN AsEntity("scenario", Getattr(stk, "scenario").val)
    ELSE AsEntity("feature", Getattr(stk, "feature").val)

\* The statement the failure is attached to ("none" is None)
Statement(name, stk) ==
    IF IsTagHook(name) THEN TagStatement(stk)
    ELSE IF IsAllHook(name) THEN "none"
    ELSE HookArg(name)

\* Variant: the diagnostic replaces the error message.
MarkedOverwriting(ent) ==
    [hook_failed |-> TRUE, error_message |-> <<"HOOK-ERROR">>,
     exc_context |-> TRUE]

\* "statement.hook_failed = True" and the error message of the statement
Marked(ent) ==
    IF ent.error_message # <<>>
    THEN [ent EXCEPT !.hook_failed = TRUE,
                     !.error_message = Append(@, "HOOK-ERROR")]
    ELSE [ent EXCEPT !.hook_failed = TRUE,
                     !.exc_context = TRUE,
                     !.error_message = <<"HOOK-ERROR">>]

\* "if statement:"
MarkStatement(ents, st) ==
    IF st = "none" THEN ents ELSE [ents EXCEPT ![st] = Marked(@)]

\* _set_root_attribute raises KeyError: a frame above the root holds the name
\* and _record or _origin has no entry for it
RootWriteRaises(stk, rec, org, n) ==
    /\ Holders(stk, NonRootFrames(stk), n) # {}
    /\ n \notin rec \/ n \notin DOMAIN org

\* Variant: the root frame is not written.
RootNotWritten(stk, n, v) == stk

\* The stack after _set_root_attribute(n, v)
RootWritten(stk, n, v) == [stk EXCEPT ![Len(stk)].vals = Put(@, n, v)]

\* The origin table after _set_root_attribute(n, v) in mode m
RootOrigin(org, n, m) == IF n \in DOMAIN org THEN org ELSE Put(org, n, m)

\* The warnings of _set_root_attribute(n, v) in mode m
RootWarnings(stk, org, n, m, verb) ==
    LET hits == Cardinality(Holders(stk, NonRootFrames(stk), n))
    IN IF hits = 0 THEN <<>> ELSE WarningsFor(hits, m, org[n], verb)

\* The except clause of run_hook: what the caller gets
HandlerOut(name, stk, rec, org) ==
    IF IsTagHook(name)
    THEN IF Getattr(stk, "feature").out = "ok" THEN "ok" ELSE "AttributeError"
    ELSE IF IsAllHook(name) /\ RootWriteRaises(stk, rec, org, "aborted")
         THEN "KeyError" ELSE "ok"

\* What the caller of run_hook observed; calls holds what the hook callable
\* did when it was called, val the value it assigned in the store (if any)
HookObs(name, out, outcome, w, v) ==
    [Obs("run_hook", name, v, out, w) EXCEPT !.calls = outcome]

\* What the hook callable may assign in the store before it returns or raises
HookWrites == {"none", "x"}

\* Variant: the hook is called in the mode run_hook was called in.
HookBodyModeKept(m) == m

\* "with context.use_with_user_mode()": the mode the hook callable runs in
HookBodyMode(m) == USER

\* __setattr__ raises KeyError (at self._record[attr]) for this name
SetattrRaises(stk, rec, org, n) ==
    /\ Holders(stk, OuterFrames(stk), n) # {}
    /\ n \notin rec \/ n \notin DOMAIN org

\* The state an assignment context.n = 1 made by the hook callable leaves
\* (__setattr__ in the mode m of the callable), and its warnings
BodyWritten(stk, rec, org, n, m, verb) ==
    IF n = "none" \/ SetattrRaises(stk, rec, org, n)
    THEN [stack |-> stk, record |-> rec, origin |-> org, warns |-> <<>>]
    ELSE [stack |-> [stk EXCEPT ![1].vals = Put(@, n, 1)],
          record |-> rec \cup {n},
          origin |-> IF n \in DOMAIN org THEN org ELSE Put(org, n, m),
          warns |-> LET hits == Cardinality(Holders(stk, OuterFrames(stk), n))
                    IN IF hits = 0 THEN <<>>
                       ELSE WarningsFor(hits, m, org[n], verb)]

\* What the hook callable did, seen from run_hook: a KeyError raised by its
\* assignment is an Exception
BodyOutcome(stk, rec, org, n, outcome) ==
    IF n # "none" /\ SetattrRaises(stk, rec, org, n) THEN "raises"
    ELSE outcome

\* The hook is called in USER mode and the mode it was called in is restored;
\* an Exception is handled, anything else goes to the caller
RunHook(name, outcome, write) ==
    /\ hook_failures < MaxHookFailures
    /\ mode' = Restored(Append(saved, mode))
    /\ IF ~Dispatched(config, hooks, name)
       THEN /\ last' = HookObs(name, "noop", <<>>, <<>>, NoVal)
            /\ UNCHANGED <<stack, record, origin, hook_failures, entities>>
       ELSE LET body == BodyWritten(stack, record, origin, write,
                                    HookBodyMode(mode), verbose)
                did == BodyOutcome(stack, record, origin, write, outcome)
                val == IF write = "none" THEN NoVal ELSE 1
                fatal == IsAllHook(name) /\ ~IsTagHook(name)
            IN /\ record' = body.record
               /\ IF did = "returns"
                  THEN /\ last' = HookObs(name, "ok", <<did>>, body.warns, val)
                       /\ stack' = body.stack
                       /\ origin' = body.origin
                       /\ UNCHANGED <<hook_failures, entities>>
                  ELSE IF did = "interrupt"
                  THEN /\ last' = HookObs(name, "KeyboardInterrupt", <<did>>,
                                          body.warns, val)
                       /\ stack' = body.stack
                       /\ origin' = body.origin
                       /\ UNCHANGED <<hook_failures, entities>>
                  ELSE /\ hook_failures' = hook_failures + 1
                       /\ IF HandlerOut(name, body.stack, body.record,
                                        body.origin) # "ok"
                          THEN /\ last' = HookObs(name,
                                              HandlerOut(name, body.stack,
                                                         body.record,
                                                         body.origin),
                                              <<did>>, body.warns, val)
                               /\ stack' = body.stack
                               /\ origin' = body.origin
                               /\ UNCHANGED entities
                          ELSE /\ stack' = IF fatal
                                           THEN RootWritten(body.stack,
                                                            "aborted", 1)
                                           ELSE body.stack
                               /\ origin' = IF fatal
                                            THEN RootOrigin(body.origin,
                                                            "aborted", mode')
                                            ELSE body.origin
                               /\ entities' = MarkStatement(entities,
                                                  Statement(name, body.stack))
                               /\ last' = HookObs(name, "handled", <<did>>,
                                              body.warns \o
                                              (IF fatal
                                               THEN RootWarnings(body.stack,
                                                        body.origin, "aborted",
                                                        mode', verbose)
                                               ELSE <<>>), val)
    /\ UNCHANGED <<saved, verbose, fail_on_cleanup_errors, cleanup_errors,
                   config, hooks, undefined_steps, runVars, dict>>

----------------------------------------------------------------------------
(* ModelRunner.run_model *)

\* self.formatters and self.config.reporters, in order
Formatters == <<"formatter">>
Reporters == <<"summary", "junit">>

\* A call made to a collaborator: e is what was called, f the position of the
\* feature in the collection it was called for, k the position of the
\* formatter or reporter called, r what a hook or feature.run did
Event(e, f, k, r) == [e |-> e, f |-> f, k |-> k, r |-> r]

\* What before_all or after_all can do before it returns or raises: record an
\* undefined step, register a cleanup in the root frame, assign fail_on_cleanup_errors
HookBodies == [outcome : HookOutcomes, undefined : {0, 1},
               cleanup : {"none", "ok", "bad1"}, strict : BOOLEAN]

\* What feature.run(runner) can do: return failed or not, or let a
\* KeyboardInterrupt through; set runner.aborted; record an undefined step;
\* have one of its hooks fail
FeatureOutcomes == [result : {"passed", "failed", "interrupt"},
                    aborts : BOOLEAN, undefined : {0, 1}, hook : {0, 1}]

\* Variant: features are run whatever the abort flag says.
RunFeatureAlways(stk) == TRUE

\* "run_feature = not self.aborted"
RunFeatureInitially(stk) == Getattr(stk, "aborted").val = 0

\* Variant: only an abort ends the execution of features.
StopsOnlyOnAbort(cfg, stk) == Getattr(stk, "aborted").val = 1

\* "if self.config.stop or self.aborted"
StopsAfterFailure(cfg, stk) == cfg.stop \/ Getattr(stk, "aborted").val = 1

\* "for formatter in self.formatters: formatter.uri(feature.filename)"
UriCalls(i) == [k \in 1..Len(Formatters) |-> Event("uri", i, k, "-")]

\* Variant: only the first reporter is told.
ReporterCallsFirstOnly(i) == <<Event("report", i, 1, "-")>>

\* "for reporter in self.config.reporters: reporter.feature(feature)"
ReporterCalls(i) == [k \in 1..Len(Reporters) |-> Event("report", i, k, "-")]

\* Variant: the reporters are not told that the run has ended.
ClosingFormattersOnly == [k \in 1..Len(Formatters) |-> Event("close", 0, k, "-")]

\* formatter.close() for every formatter, then reporter.end() for every
\* reporter
ClosingCalls ==
    [k \in 1..Len(Formatters) |-> Event("close", 0, k, "-")]
    \o [k \in 1..Len(Reporters) |-> Event("end", 0, k, "-")]

\* The root frame after a hook body ran
BodyStack(stk, body) ==
    IF body.cleanup = "none" \/ Registered(stk[1].cleanups, body.cleanup)
    THEN stk
    ELSE [stk EXCEPT ![1].cleanups =
             Append(@, Entry(body.cleanup, FALSE, Len(stk)))]

\* The value run_model returns
Verdict(l, stk, hf, und) ==
    \/ l.failed_count > 0
    \/ Getattr(stk, "aborted").val = 1
    \/ hf > 0
    \/ und > l.undefined_steps_initial_size
    \/ l.cleanups_failed

\* run_model up to the call of run_hook("before_all"): the context exists and
\* is at its root level
RunModelEnter ==
    /\ pc = "idle"
    /\ Len(stack) = 1
    /\ hook_failures' = 0
    /\ events' = <<Event("setup_capture", 0, 0, "-")>>
    /\ loc' = [NoLocals EXCEPT !.entry_size = undefined_steps]
    /\ pc' = "before_all"
    /\ last' = Obs("run_model", "-", NoVal, "running", <<>>)
    /\ UNCHANGED <<stack, record, origin, mode, saved, verbose,
                   fail_on_cleanup_errors, cleanup_errors, config, hooks,
                   undefined_steps, entities, features, dict>>

\* run_hook("before_all", context) and the three assignments after it
BeforeAll(body) ==
    /\ pc = "before_all"
    /\ LET called == Dispatched(config, hooks, "before_all")
           raised == called /\ body.outcome = "raises"
           stk == IF called THEN BodyStack(stack, body) ELSE stack
           stk2 == IF raised THEN RootWritten(stk, "aborted", 1) ELSE stk
           und == IF called THEN undefined_steps + body.undefined
                  ELSE undefined_steps
       IN /\ stack' = stk2
          /\ origin' = IF raised THEN RootOrigin(origin, "aborted", mode)
                       ELSE origin
          /\ undefined_steps' = und
          /\ fail_on_cleanup_errors' = IF called THEN body.strict
                                       ELSE fail_on_cleanup_errors
          /\ hook_failures' = IF raised THEN hook_failures + 1
                              ELSE hook_failures
          /\ events' = Append(events,
                              Event("before_all", 0, 0,
                                    IF called THEN body.outcome ELSE "noop"))
          /\ IF called /\ body.outcome = "interrupt"
             THEN /\ pc' = "raised"
                  /\ loc' = loc
                  /\ last' = Obs("run_model", "-", NoVal,
                                 "KeyboardInterrupt", <<>>)
             ELSE /\ pc' = "features"
                  /\ loc' = [loc EXCEPT
                               !.run_feature = RunFeatureInitially(stk2),
                               !.failed_count = 0,
                               !.undefined_steps_initial_size = und,
                               !.idx = 1]
                  /\ last' = Obs("run_model", "-", NoVal, "running", <<>>)
    /\ UNCHANGED <<record, mode, saved, verbose, cleanup_errors, config, hooks,
                   entities, features, dict>>

\* One iteration of "for feature in features"
RunFeature(o) ==
    /\ pc = "features"
    /\ loc.idx <= features
    /\ LET i == loc.idx
           ran == loc.run_feature
           sets == ran /\ (o.aborts \/ o.result = "interrupt")
           stk == IF sets THEN RootWritten(stack, "aborted", 1) ELSE stack
       IN /\ stack' = stk
          /\ origin' = IF sets THEN RootOrigin(origin, "aborted", mode)
                       ELSE origin
          /\ undefined_steps' = IF ran THEN undefined_steps + o.undefined
                                ELSE undefined_steps
          /\ hook_failures' = IF ran THEN hook_failures + o.hook
                              ELSE hook_failures
          /\ events' = events
                       \o (IF ran
                           THEN UriCalls(i) \o <<Event("run", i, 0, o.result)>>
                           ELSE <<>>)
                       \o ReporterCalls(i)
          /\ loc' = [loc EXCEPT
                       !.idx = i + 1,
                       !.failed_count =
                           IF ran /\ o.result # "passed" THEN @ + 1 ELSE @,
                       !.run_feature =
                           IF ~ran THEN FALSE
                           ELSE IF o.result = "interrupt" THEN FALSE
                           ELSE IF o.result = "failed"
                                   /\ StopsAfterFailure(config, stk)
                                THEN FALSE
                           ELSE TRUE]
          /\ last' = Obs("run_model", "-", NoVal, "running", <<>>)
    /\ pc' = pc
    /\ UNCHANGED <<record, mode, saved, verbose, fail_on_cleanup_errors,
                   cleanup_errors, config, hooks, entities, features, dict>>

\* "cleanups_failed = False" and run_hook("after_all", self.context)
AfterAll(body) ==
    /\ pc = "features"
    /\ loc.idx > features
    /\ LET called == Dispatched(config, hooks, "after_all")
           raised == called /\ body.outcome = "raises"
           stk == IF called THEN BodyStack(stack, body) ELSE stack
       IN /\ stack' = IF raised THEN RootWritten(stk, "aborted", 1) ELSE stk
          /\ origin' = IF raised THEN RootOrigin(origin, "aborted", mode)
                       ELSE origin
          /\ undefined_steps' = IF called THEN undefined_steps + body.undefined
                                ELSE undefined_steps
          /\ fail_on_cleanup_errors' = IF called THEN body.strict
                                       ELSE fail_on_cleanup_errors
          /\ hook_failures' = IF raised THEN hook_failures + 1
                              ELSE hook_failures
          /\ events' = Append(events,
                              Event("after_all", 0, 0,
                                    IF called THEN body.outcome ELSE "noop"))
          /\ IF called /\ body.outcome = "interrupt"
             THEN /\ pc' = "raised"
                  /\ last' = Obs("run_model", "-", NoVal,
                                 "KeyboardInterrupt", <<>>)
             ELSE /\ pc' = "cleanups"
                  /\ last' = Obs("run_model", "-", NoVal, "running", <<>>)
    /\ loc' = [loc EXCEPT !.cleanups_failed = FALSE]
    /\ UNCHANGED <<record, mode, saved, verbose, cleanup_errors, config, hooks,
                   entities, features, dict>>

\* self.context._do_cleanups() inside try/except Exception: the root frame is
\* drained and stays
RootCleanups ==
    /\ pc = "cleanups"
    /\ cleanup_errors' = cleanup_errors + Len(CleanupFailures(stack[1]))
    /\ loc' = [loc EXCEPT !.cleanups_failed =
                   DoCleanupsRaises(stack[1], fail_on_cleanup_errors)]
    /\ events' = Append(events, Event("do_cleanups", 0, 0, "-"))
    /\ last' = [Obs("run_model", "-", NoVal, "running", <<>>) EXCEPT
                  !.calls = CleanupCalls(stack[1]),
                  !.handled = HandlerCalls(stack[1])]
    /\ pc' = "closing"
    /\ UNCHANGED <<stack, record, origin, mode, saved, verbose,
                   fail_on_cleanup_errors, config, hooks, hook_failures,
                   undefined_steps, entities, features, dict>>

\* The formatters are closed, the reporters ended, the verdict returned
Finish ==
    /\ pc = "closing"
    /\ events' = events \o ClosingCalls
    /\ loc' = [loc EXCEPT !.failed =
                   Verdict(loc, stack, hook_failures, undefined_steps)]
    /\ last' = Obs("run_model", "-", NoVal,
                   IF Verdict(loc, stack, hook_failures, undefined_steps)
                   THEN "failed" ELSE "passed", <<>>)
    /\ pc' = "done"
    /\ UNCHANGED <<stack, record, origin, mode, saved, verbose,
                   fail_on_cleanup_errors, cleanup_errors, config, hooks,
                   hook_failures, undefined_steps, entities, features, dict>>

----------------------------------------------------------------------------
(* Context.__getattr__, __setattr__ and __contains__ for any name *)

\* Names with the reserved prefix that users of the context assign
ReservedNames == {"_y"}

\* Variant: no name is treated as reserved.
IsReservedNever(n) == FALSE

\* 'attr[0] == "_"'
IsReserved(n) == n \in ReservedNames

\* "for frame in self._stack: if attr in frame: return True"
InSomeFrame(stk, n) == \E i \in 1..Len(stk) : n \in DOMAIN stk[i].vals

\* context.n = v
SetName(n, v) ==
    IF IsReserved(n)
    THEN /\ dict' = Put(dict, n, v)
         /\ last' = Obs("set", n, v, "ok", <<>>)
         /\ UNCHANGED <<stack, record, origin, mode, saved, verbose,
                        fail_on_cleanup_errors, cleanup_errors, runnerVars,
                        runVars>>
    ELSE Set(n, v)

\* context.n
GetName(n) ==
    IF IsReserved(n)
    THEN /\ last' = IF n \in DOMAIN dict
                    THEN Obs("get", n, dict[n], "ok", <<>>)
                    ELSE Obs("get", n, NoVal, "AttributeError", <<>>)
         /\ UNCHANGED <<stack, record, origin, mode, saved, verbose,
                        fail_on_cleanup_errors, cleanup_errors, runnerVars,
                        runVars, dict>>
    ELSE Get(n)

\* n in context: val is 1 for True and 0 for False
ContainsName(n) ==
    /\ last' = Obs("contains", n,
                   IF IsReserved(n)
                   THEN (IF n \in DOMAIN dict THEN 1 ELSE 0)
                   ELSE (IF InSomeFrame(stack, n) THEN 1 ELSE 0),
                   "ok", <<>>)
    /\ UNCHANGED <<stack, record, origin, mode, saved, verbose,
                   fail_on_cleanup_errors, cleanup_errors, runnerVars,
                   runVars, dict>>

----------------------------------------------------------------------------
(* Specifications *)

\* The attribute store: reads, writes and deletes under push/pop, in the mode
\* the constructor leaves (no cleanups registered).
Next ==
    \/ Push
    \/ Pop
    \/ \E n \in Names, v \in Values : Set(n, v)
    \/ \E n \in PrepopulatedNames, v \in Values : SetRootAttribute(n, v)
    \/ \E n \in Names : Del(n)
    \/ \E n \in Names : Get(n)

Spec == Init /\ [][Next]_vars

\* Masking warnings: writes and deletes under push/pop with the writer mode
\* switched by use_context_with_mode blocks.
NextWarn ==
    \/ Push
    \/ Pop
    \/ \E n \in Names, v \in Values : Set(n, v)
    \/ \E n \in Names : Del(n)
    \/ \E m \in Modes : EnterMode(m)
    \/ ExitMode

SpecWarn == Init /\ [][NextWarn]_vars

\* The user assigns context.fail_on_cleanup_errors (at the root level, as a
\* before_all hook does).
SetPolicy(b) ==
    /\ UNCHANGED <<runnerVars, runVars, dict>>
    /\ /\ Len(stack) = 1
       /\ fail_on_cleanup_errors' = b
       /\ last' = Obs("set_policy", "-", NoVal, "ok", <<>>)
       /\ UNCHANGED <<stack, record, origin, mode, saved, verbose, cleanup_errors>>

\* Frame teardown: push, add_cleanup and pop.
NextCleanup ==
    \/ \E b \in BOOLEAN : SetPolicy(b)
    \/ Push
    \/ \E f \in CleanupFuncs, a \in BOOLEAN : AddCleanup(f, a)
    \/ Pop
    \/ DoCleanups

SpecCleanup == Init /\ [][NextCleanup]_vars

\* A runner whose hooks are loaded, all of them or only the before_ ones
HookSets == {HookNames,
             {"before_all", "before_feature", "before_scenario", "before_step",
              "before_tag"}}

\* The levels at which hooks are dispatched: the root frame, the frame pushed
\* for a feature and the frame pushed for a scenario
Levels == <<"root", "feature", "scenario">>

InitHook ==
    /\ InitContext
    /\ verbose = FALSE
    /\ config \in [dry_run : BOOLEAN, stop : {FALSE}]
    /\ hooks \in HookSets
    /\ hook_failures = 0
    /\ undefined_steps = 0
    /\ entities = [e \in EntityNames |-> FreshEntity]
    /\ features = 0
    /\ pc = "idle"
    /\ loc = NoLocals
    /\ events = <<>>

\* Hook dispatch while features and scenarios come and go: the feature and the
\* scenario being run are assigned to the store in the frame pushed for them
\* and go with that frame.
NextHook ==
    \/ \E name \in HookNames, outcome \in HookOutcomes :
          RunHook(name, outcome, "none")
    \/ Len(stack) < Len(Levels) /\ Push
    \/ \E n \in {"feature", "scenario"} : Set(n, 1)
    \/ Pop

SpecHook == InitHook /\ [][NextHook]_vars

\* Reserved and ordinary names side by side, in both modes
AnyNames == ReservedNames \cup {"x"}

NextReserved ==
    \/ Len(stack) < Len(Levels) /\ Push
    \/ Pop
    \/ \E n \in AnyNames, v \in Values : SetName(n, v)
    \/ \E n \in AnyNames : GetName(n)
    \/ \E n \in AnyNames : ContainsName(n)
    \/ EnterMode(USER)
    \/ ExitMode

SpecReserved == Init /\ [][NextReserved]_vars

\* Context.execute_steps.  The names text and table of __init__ are in the
\* store next to "feature"; value 0 is None.
StepNames == {"table", "text"}

\* The parsed sub-steps.  step.run() returns passed or not; before it
\* returns, the step may assign context.text and context.table (val, NoVal
\* when it assigns neither).
SubSteps == [passed : BOOLEAN, val : Values \cup {NoVal}]

StepLists ==
    UNION {[1..k -> SubSteps] : k \in 0..MaxSteps}

\* getattr(self, n, None)
Original(stk, n) ==
    IF Getattr(stk, n).out = "ok" THEN Getattr(stk, n).val ELSE 0

\* The store after context.n = v in mode m.  The names assigned here have a
\* _record entry and origin BEHAVE from __init__ on, and the writer mode is
\* BEHAVE: __setattr__ neither raises nor warns.
Assigned(st, n, v, m) ==
    [stack |-> [st.stack EXCEPT ![1].vals = Put(@, n, v)],
     record |-> st.record \cup {n},
     origin |-> OriginRecorded(st.origin, n, m)]

\* The store after one sub-step ran
StepAssigned(st, step) ==
    IF step.val = NoVal THEN st
    ELSE Assigned(Assigned(st, "text", step.val, BEHAVE),
                  "table", step.val, BEHAVE)

\* "for step in steps: passed = step.run(...); if not passed: assert False":
\* the number of sub-steps that are run
StepsRun(steps) ==
    IF \A i \in 1..Len(steps) : steps[i].passed THEN Len(steps)
    ELSE CHOOSE i \in 1..Len(steps) :
             /\ ~steps[i].passed
             /\ \A j \in 1..(i - 1) : steps[j].passed

\* The store after the first k sub-steps ran
AfterSteps(st, steps, k) ==
    LET RECURSIVE After(_)
        After(i) == IF i = 0 THEN st
                    ELSE StepAssigned(After(i - 1), steps[i])
    IN After(k)

\* What step.run() was called with: the sub-step, the mode of the store at
\* the call, and what it returned
StepCalls(steps, k, m) ==
    [i \in 1..k |-> [step |-> i, mode |-> m, passed |-> steps[i].passed]]

\* context.execute_steps(steps_text); val is the number of parsed sub-steps
ExecuteSteps(steps) ==
    /\ UNCHANGED <<runnerVars, runVars, dict>>
    /\ IF Original(stack, "feature") = 0
       THEN \* "if not self.feature: raise ValueError"
            /\ last' = Obs("execute_steps", "-", Len(steps), "ValueError", <<>>)
            /\ UNCHANGED <<stack, record, origin, mode>>
       ELSE LET k == StepsRun(steps)
                failed == \E i \in 1..Len(steps) : ~steps[i].passed
                body == AfterSteps([stack |-> stack, record |-> record,
                                    origin |-> origin], steps, k)
                \* self.table = original_table; self.text = original_text:
                \* after the loop, inside the with-block
                done == Assigned(Assigned(body, "table",
                                          Original(stack, "table"), BEHAVE),
                                 "text", Original(stack, "text"), BEHAVE)
                final == IF failed THEN body ELSE done
            IN /\ stack' = final.stack
               /\ record' = final.record
               /\ origin' = final.origin
               /\ mode' = Restored(Append(saved, mode))
               /\ last' = [Obs("execute_steps", "-", Len(steps),
                               IF failed THEN "AssertionError" ELSE "True",
                               <<>>)
                           EXCEPT !.calls = StepCalls(steps, k, BEHAVE)]
    /\ UNCHANGED <<saved, verbose, fail_on_cleanup_errors, cleanup_errors>>

\* Context.__init__ with text and table in the store
InitSteps ==
    /\ stack = <<[vals |-> [k \in PrepopulatedNames \cup InitAssignedNames
                                  \cup StepNames |-> 0],
                  cleanups |-> <<>>]>>
    /\ record = InitAssignedNames \cup StepNames
    /\ origin = [k \in InitAssignedNames \cup StepNames |-> BEHAVE]
    /\ mode = BEHAVE
    /\ saved = <<>>
    /\ fail_on_cleanup_errors = TRUE
    /\ cleanup_errors = 0
    /\ last = NoObs
    /\ dict = EmptyVals
    /\ verbose = FALSE
    /\ InitRunner

\* The frames of the store when execute_steps is called: at the root level
\* or in one inner frame
StepLevels == <<"root", "scenario">>

\* A step of a scenario (or a hook) calls execute_steps: the feature is set
\* or not, the step has its own text and table
NextSteps ==
    \/ Len(stack) < Len(StepLevels) /\ Push
    \/ Pop
    \/ \E v \in Values : Set("feature", v)
    \/ \E n \in StepNames, v \in Values : Set(n, v)
    \/ EnterMode(USER)
    \/ ExitMode
    \/ \E steps \in StepLists : ExecuteSteps(steps)

SpecSteps == InitSteps /\ [][NextSteps]_vars

\* The origin mapping: writes through __setattr__ and _set_root_attribute in
\* both modes, with deletes, pushes and pops in between
NextOrigin ==
    \/ Push
    \/ Pop
    \/ \E n \in Names : Set(n, 1)
    \/ \E n \in Names : SetRootAttribute(n, 1)
    \/ \E n \in Names : Del(n)
    \/ \E m \in Modes : EnterMode(m)
    \/ ExitMode

SpecOrigin == Init /\ [][NextOrigin]_vars

\* One hook of each kind that is loaded in every runner, and two that are not
ModeHooks == {"before_all", "before_scenario", "before_tag", "after_all",
              "after_tag"}

\* Hook dispatch inside and outside use_context_with_mode blocks, with hooks
\* that assign in the store
NextMode ==
    \/ \E m \in Modes : EnterMode(m)
    \/ ExitMode
    \/ \E v \in Values : Set("x", v)
    \/ \E name \in ModeHooks, outcome \in HookOutcomes, write \in HookWrites :
          RunHook(name, outcome, write)

SpecMode == InitHook /\ [][NextMode]_vars

\* A runner about to be run: it may have been run before (undefined steps and
\* hook failures of that run are still counted)
InitRun ==
    /\ InitContext
    /\ verbose = FALSE
    /\ config \in [dry_run : BOOLEAN, stop : BOOLEAN]
    /\ hooks \in HookSets
    /\ hook_failures \in {0, 1}
    /\ undefined_steps \in {0, 1}
    /\ entities = [e \in EntityNames |-> FreshEntity]
    /\ features \in 0..MaxFeatures
    /\ pc = "idle"
    /\ loc = NoLocals
    /\ events = <<>>

\* One call of run_model, step by step
NextRun ==
    \/ RunModelEnter
    \/ \E body \in HookBodies : BeforeAll(body)
    \/ \E o \in FeatureOutcomes : RunFeature(o)
    \/ \E body \in HookBodies : AfterAll(body)
    \/ RootCleanups
    \/ Finish

SpecRun == InitRun /\ [][NextRun]_vars

----------------------------------------------------------------------------
(* Properties.  Helper notions used to state them. *)

\* n is held by a frame other than frame 0
InOuter(n) == \E i \in 2..Len(stack) : n \in DOMAIN stack[i].vals

\* n is held by frame 0
InFrame0(stk, n) == n \in DOMAIN stk[1].vals

\* n is held by no frame
InNoFrame(stk, n) == \A i \in 1..Len(stk) : n \notin DOMAIN stk[i].vals

\* The names the Context docstring lists as used by behave
FrameworkNames == PrepopulatedNames \cup InitAssignedNames

\* The masking table of the specification, "" = no warning
TableClass(m, org, verb) ==
    CASE m = BEHAVE /\ org = USER -> "behave_masks_user"
      [] m = USER /\ org = BEHAVE -> "user_masks_behave"
      [] m = USER /\ org = USER -> IF verb THEN "user_masks_user" ELSE ""
      [] m = BEHAVE /\ org = BEHAVE -> ""

----------------------------------------------------------------------------
\* C1: immediately after set(n, v), for every name n without the reserved
\* prefix, every value v and every reachable stack, get(n) returns v.
C1_SetThenGet ==
    last.op = "set" =>
        Getattr(stack, last.name) = [out |-> "ok", val |-> last.val]

\* C2: when n is held by an outer frame and set(n, v) is performed with a newer
\* frame on top, the write lands in frame 0 and get(n) returns v; the outer
\* frames keep their value for n.
C2_InnerWriteLands ==
    [][(last'.op = "set" /\ Len(stack) >= 2 /\ InOuter(last'.name)) =>
          /\ InFrame0(stack', last'.name)
          /\ Getattr(stack', last'.name) = [out |-> "ok", val |-> last'.val]
          /\ Tail(stack') = Tail(stack)]_vars

\* C3: a set(n, v) that masks an outer value triggers exactly one masking
\* warning per call, not one per outer frame that holds n: a set call that
\* warns hands exactly one warning to warnings.warn.
C3_OneWarningPerSet ==
    (last.op = "set" /\ last.warns # <<>>) => Len(last.warns) = 1

\* C4: set(n, v) completes without raising in every reachable state, and
\* afterwards frame 0 holds n = v.
C4_SetNeverRaises ==
    last.op = "set" =>
        /\ last.out = "ok"
        /\ InFrame0(stack, last.name)
        /\ stack[1].vals[last.name] = last.val

\* C5: get(n) for a name held by no frame fails with AttributeError (no default
\* value is returned) and leaves the frames, the origin table and the
\* provenance records as they were.
C5_GetMissingFails ==
    [][(last'.op = "get" /\ InNoFrame(stack, last'.name)) =>
          /\ last'.out = "AttributeError"
          /\ last'.val = NoVal
          /\ UNCHANGED <<stack, origin, record>>]_vars

C5_Witness ==
    /\ last.op = "get"
    /\ last.out = "AttributeError"
    /\ InNoFrame(stack, last.name)
    /\ Len(stack) >= 2

\* C6: delete(n) when n is held only by an outer frame fails with
\* AttributeError and changes nothing: the outer frame keeps n with its value
\* and get(n) still returns it.
C6_DeleteOuterFails ==
    [][(last'.op = "del" /\ ~InFrame0(stack, last'.name)
                         /\ InOuter(last'.name)) =>
          /\ last'.out = "AttributeError"
          /\ UNCHANGED <<stack, record, origin>>
          /\ Getattr(stack', last'.name).out = "ok"
          /\ Getattr(stack', last'.name) = Getattr(stack, last'.name)]_vars

C6_Witness ==
    /\ last.op = "del"
    /\ last.out = "AttributeError"
    /\ ~InFrame0(stack, last.name)
    /\ InOuter(last.name)

\* C7: delete(n) succeeds whenever n is held by frame 0, however it got there
\* (root-frame names included when the root is frame 0); afterwards frame 0
\* no longer holds n.
C7_DeleteAtCurrentLevelSucceeds ==
    [][(last'.op = "del" /\ InFrame0(stack, last'.name)) =>
          /\ last'.out = "ok"
          /\ ~InFrame0(stack', last'.name)
          /\ Tail(stack') = Tail(stack)]_vars

\* C8: when set finds n in an outer frame, the warnings it issues are decided
\* by (current mode, recorded origin of n) alone, as the masking table says:
\* BEHAVE over USER warns, USER over BEHAVE warns, USER over USER warns only
\* when verbose, BEHAVE over BEHAVE never warns.
C8_MaskingTable ==
    (last.op = "set" /\ last.out = "ok" /\ InOuter(last.name)) =>
        /\ (last.warns = <<>>) <=>
               (TableClass(mode, origin[last.name], verbose) = "")
        /\ \A i \in 1..Len(last.warns) :
               last.warns[i] = TableClass(mode, origin[last.name], verbose)

C8_Witness ==
    /\ last.op = "set"
    /\ last.out = "ok"
    /\ InOuter(last.name)
    /\ mode = USER
    /\ origin[last.name] = USER
    /\ verbose
    /\ last.warns # <<>>

\* C9: whenever user-mode code writes one of the names used by behave, at any
\* stack depth including the root level, a ContextMaskWarning is issued;
\* likewise whenever behave overwrites a name first set by user code.
C9_FrameworkNamesWarn ==
    [][(last'.op = "set" /\ last'.out = "ok") =>
          /\ (mode = USER /\ last'.name \in FrameworkNames) =>
                 last'.warns # <<>>
          /\ (mode = BEHAVE /\ ~InNoFrame(stack, last'.name)
                            /\ last'.name \in DOMAIN origin
                            /\ origin[last'.name] = USER) =>
                 last'.warns # <<>>]_vars

\* C10: pop() removes exactly frame 0 in every case, whether or not a cleanup
\* failed and whatever the fail-on-cleanup-error policy; under the strict
\* policy a cleanup failure reaches the caller (with the frame already gone),
\* under the non-strict policy pop() returns normally.
C10_PopRemovesFrame ==
    [][last'.op = "pop" =>
          /\ stack' = Tail(stack)
          /\ (last'.out = "CleanupError") <=>
                 (/\ fail_on_cleanup_errors
                  /\ \E i \in 1..Len(stack[1].cleanups) :
                         Raises(stack[1].cleanups[i].f))
          /\ ~fail_on_cleanup_errors => last'.out = "ok"]_vars

C10_Witness ==
    /\ last.op = "pop"
    /\ last.out = "CleanupError"
    /\ last.err # "-"
    /\ Len(last.calls) >= 2
    /\ Len(stack) = 1

----------------------------------------------------------------------------
(* Cleanup registry.  Helper notions. *)

\* The functions registered on frame 0 before the operation, latest first
RegisteredLatestFirst ==
    [i \in 1..Len(stack[1].cleanups) |->
        stack[1].cleanups[Len(stack[1].cleanups) + 1 - i].f]

\* The positions of a sequence of functions at which the function raises
FailingAt(fs) == {i \in 1..Len(fs) : fs[i] \in {"bad1", "bad2"}}

\* How often f occurs in a sequence of functions
Occurrences(fs, f) == Cardinality({i \in 1..Len(fs) : fs[i] = f})

\* C11: draining a frame invokes its registered cleanup actions in reverse
\* registration order, every one of them whichever of them failed, and calls
\* the error handler once per failing action.
C11_DrainReverseBestEffort ==
    [][last'.op = "pop" =>
          /\ last'.calls = RegisteredLatestFirst
          /\ last'.handled =
                 SelectSeq(RegisteredLatestFirst,
                           LAMBDA f : f \in {"bad1", "bad2"})]_vars

C11_Witness ==
    /\ last.op = "pop"
    /\ Len(last.calls) = 2
    /\ last.calls[1] # last.calls[2]
    /\ last.calls[1] \in {"bad1", "bad2"}
    /\ Len(last.handled) >= 1

\* C12: if several cleanup actions of one frame fail, all are invoked, the
\* root cleanup-error counter grows by exactly the number of failing actions,
\* and under the strict policy the error surfaced is that of the first failure
\* in invocation order (the most recently registered failing action).
C12_FirstFailureSurfaces ==
    [][last'.op = "pop" =>
          /\ Len(last'.calls) = Len(stack[1].cleanups)
          /\ cleanup_errors' =
                 cleanup_errors + Cardinality(FailingAt(RegisteredLatestFirst))
          /\ (fail_on_cleanup_errors /\ FailingAt(RegisteredLatestFirst) # {}) =>
                 /\ last'.out = "CleanupError"
                 /\ last'.err = RegisteredLatestFirst[
                        CHOOSE i \in FailingAt(RegisteredLatestFirst) :
                            \A j \in FailingAt(RegisteredLatestFirst) : i <= j]]_vars

C12_Witness ==
    /\ last.op = "pop"
    /\ last.out = "CleanupError"
    /\ Len(last.handled) = 2
    /\ last.handled[1] # last.handled[2]
    /\ last.err = last.handled[1]
    /\ cleanup_errors = 2

\* C13: registering the same cleanup action twice on the same frame, with or
\* without extra call arguments, results in exactly one invocation of it when
\* the frame is drained.
C13_RegisteredTwiceCalledOnce ==
    last.op = "pop" =>
        \A f \in {"ok", "bad1", "bad2"} : Occurrences(last.calls, f) <= 1


----------------------------------------------------------------------------
(* Hook dispatch *)

\* The hooks whose failure does not abort the run
NonFatalHooks == HookNames \ {"before_all", "after_all"}

\* What self.aborted reads: context.aborted, looked up through the frames
AbortFlag(stk) == Getattr(stk, "aborted").val

\* The abort flag as held by the root frame
RootAbortFlag(stk) == stk[Len(stk)].vals["aborted"]

\* The hook callable was called and raised an Exception
HookRaised(obs) == obs.op = "run_hook" /\ obs.calls = <<"raises">>

\* C18: a feature, scenario, step or tag hook that raises an Exception is
\* handled inside run_hook (nothing reaches the caller), leaves the abort flag
\* as it was and adds exactly one to hook_failures; an invocation that returns
\* leaves hook_failures unchanged.
C18_NonFatalHookIsCounted ==
    [][(last'.op = "run_hook" /\ last'.name \in NonFatalHooks) =>
         /\ HookRaised(last') =>
              /\ last'.out = "handled"
              /\ hook_failures' = hook_failures + 1
              /\ AbortFlag(stack') = AbortFlag(stack)
              /\ RootAbortFlag(stack') = RootAbortFlag(stack)
         /\ last'.calls = <<"returns">> =>
              /\ last'.out = "ok"
              /\ hook_failures' = hook_failures]_vars

C18_Witness ==
    /\ HookRaised(last)
    /\ last.name = "before_step"
    /\ last.out = "handled"
    /\ hook_failures = 2
    /\ AbortFlag(stack) = 0

\* C19: a failing before_all or after_all sets the abort flag in the root
\* frame and changes no entity; a failing feature, scenario or step hook sets
\* hook_failed on the entity it was called with and on no other, appends the
\* diagnostic to an error message already there or else stores it as the
\* first one together with the exception context, and leaves the abort flag.
C19_FailureTarget ==
    [][HookRaised(last') =>
         /\ last'.name \in {"before_all", "after_all"} =>
              /\ RootAbortFlag(stack') = 1
              /\ AbortFlag(stack') = 1
              /\ entities' = entities
         /\ HookArg(last'.name) # "none" =>
              LET e == HookArg(last'.name)
                  old == entities[e]
                  new == entities'[e]
              IN /\ new.hook_failed
                 /\ \A o \in EntityNames \ {e} : entities'[o] = entities[o]
                 /\ old.error_message # <<>> =>
                      /\ new.error_message =
                             old.error_message \o <<"HOOK-ERROR">>
                      /\ new.exc_context = old.exc_context
                 /\ old.error_message = <<>> =>
                      /\ new.error_message = <<"HOOK-ERROR">>
                      /\ new.exc_context
                 /\ stack' = stack]_vars

C19_Witness ==
    /\ HookRaised(last)
    /\ last.name = "before_scenario"
    /\ entities["scenario"].hook_failed
    /\ Len(entities["scenario"].error_message) = 2
    /\ \A o \in {"feature", "step"} : entities[o] = FreshEntity
    /\ AbortFlag(stack) = 0

\* C20: a failing before_tag or after_tag marks the scenario when some frame
\* holds a scenario attribute, and the active feature when none does; the
\* other of the two, the step and the abort flag are left as they were.
C20_TagHookTarget ==
    [][(HookRaised(last') /\ last'.name \in {"before_tag", "after_tag"}) =>
         /\ ~InNoFrame(stack, "scenario") =>
              /\ entities'["scenario"].hook_failed
              /\ entities'["feature"] = entities["feature"]
         /\ (InNoFrame(stack, "scenario") /\ Getattr(stack, "feature").val = 1) =>
              /\ entities'["feature"].hook_failed
              /\ entities'["scenario"] = entities["scenario"]
         /\ entities'["step"] = entities["step"]
         /\ stack' = stack]_vars

C20_Witness ==
    /\ HookRaised(last)
    /\ last.name = "before_tag"
    /\ Len(stack) >= 2
    /\ ~InNoFrame(stack, "scenario")
    /\ Getattr(stack, "feature").val = 1
    /\ entities["scenario"].hook_failed
    /\ ~entities["feature"].hook_failed

\* A failing tag hook with no scenario attribute in any frame
C20_WitnessFeature ==
    /\ HookRaised(last)
    /\ last.name = "after_tag"
    /\ InNoFrame(stack, "scenario")
    /\ entities["feature"].hook_failed
    /\ ~entities["scenario"].hook_failed


----------------------------------------------------------------------------
(* The run loop *)

\* The events of kind e, in the order they happened
EventsOf(e) == SelectSeq(events, LAMBDA x : x.e = e)

\* The features that have been through the loop
Visited == IF pc \in {"idle", "before_all"} THEN 0 ELSE loc.idx - 1

\* run_model has returned
Returned == pc = "done"

\* Every reporter, in order, for each of the first n features, in order
ReportsExpected(n) ==
    [j \in 1..(n * Len(Reporters)) |->
        Event("report", ((j - 1) \div Len(Reporters)) + 1,
                        ((j - 1) % Len(Reporters)) + 1, "-")]

\* feature.run was called for feature i
Executed(i) == \E p \in 1..Len(events) : events[p].e = "run" /\ events[p].f = i

\* A formatter was sent the location of feature i
Announced(i) == \E p \in 1..Len(events) : events[p].e = "uri" /\ events[p].f = i

\* before_all was called and raised an Exception
BeforeAllRaised ==
    \E p \in 1..Len(events) :
        events[p].e = "before_all" /\ events[p].r = "raises"

\* C14: the value run_model returns is true exactly when a feature failed or
\* was interrupted, or the abort flag is set, or a hook failed during the
\* call, or more undefined steps are recorded than when run_model was called
\* (before before_all), or the cleanups of the root frame failed.
C14_Verdict ==
    Returned =>
        (loc.failed <=> \/ loc.failed_count > 0
                        \/ AbortFlag(stack) = 1
                        \/ hook_failures > 0
                        \/ undefined_steps > loc.entry_size
                        \/ loc.cleanups_failed)

\* C15: the calls reporter.feature(feature) made so far are those to every
\* reporter, in order, for every feature visited, in collection order, once
\* each; a feature that was run is reported right after its run; all features
\* have been visited when run_model returns.
C15_EveryFeatureReported ==
    /\ EventsOf("report") = ReportsExpected(Visited)
    /\ \A p \in 1..Len(events) :
          events[p].e = "run" =>
              /\ p + Len(Reporters) <= Len(events)
              /\ \A k \in 1..Len(Reporters) :
                    events[p + k] = Event("report", events[p].f, k, "-")
    /\ Returned => Visited = features

C15_Witness ==
    /\ Returned
    /\ features = 2
    /\ Executed(1)
    /\ \E p \in 1..Len(events) :
          events[p] = Event("run", 1, 0, "interrupt")
    /\ ~Executed(2)
    /\ Len(EventsOf("report")) = 2 * Len(Reporters)

\* C16: with config.stop set, after a feature whose run returned failed no
\* feature is run and no formatter gets a uri call, and every feature visited
\* after it is still reported to every reporter.
C16_StopAfterFailure ==
    config.stop =>
        \A p \in 1..Len(events) :
            (events[p].e = "run" /\ events[p].r = "failed") =>
                /\ \A q \in (p + 1)..Len(events) :
                      events[q].e \notin {"run", "uri"}
                /\ \A i \in (events[p].f + 1)..Visited :
                      \A k \in 1..Len(Reporters) :
                          \E q \in (p + 1)..Len(events) :
                              events[q] = Event("report", i, k, "-")
                /\ Returned => Visited = features

C16_Witness ==
    /\ Returned
    /\ config.stop
    /\ features = 2
    /\ \E p \in 1..Len(events) :
          events[p] = Event("run", 1, 0, "failed")
    /\ AbortFlag(stack) = 0
    /\ ~Executed(2)
    /\ \E q \in 1..Len(events) : events[q] = Event("report", 2, 2, "-")

\* C17: once before_all has raised an Exception the abort flag is set in the
\* root frame, no feature is run, the features visited are reported all the
\* same, and run_model returns true, also for an empty collection.
C17_BeforeAllFailureAborts ==
    BeforeAllRaised =>
        /\ RootAbortFlag(stack) = 1
        /\ \A i \in 1..features : ~Executed(i) /\ ~Announced(i)
        /\ EventsOf("report") = ReportsExpected(Visited)
        /\ Returned => (loc.failed /\ Visited = features)

C17_Witness ==
    /\ Returned
    /\ BeforeAllRaised
    /\ features = 0
    /\ loc.failed
    /\ loc.failed_count = 0
    /\ undefined_steps = loc.entry_size
    /\ ~loc.cleanups_failed

\* before_all raised and the features were skipped and reported
C17_WitnessSkipped ==
    /\ Returned
    /\ BeforeAllRaised
    /\ features = 2
    /\ Len(EventsOf("report")) = 2 * Len(Reporters)
    /\ loc.failed


----------------------------------------------------------------------------
(* Modes and hook dispatch *)

\* The hook callable was called
HookCalled(obs) == obs.op = "run_hook" /\ obs.calls # <<>>

C22_NoDispatchNoEffect ==
    [][(last'.op = "run_hook"
        /\ (config.dry_run \/ last'.name \notin hooks)) =>
           /\ last'.calls = <<>>
           /\ last'.out = "noop"
           /\ UNCHANGED <<stack, record, origin, mode, saved, hook_failures,
                          entities, cleanup_errors, undefined_steps>>]_vars

C22_Witness ==
    /\ last.op = "run_hook"
    /\ last.out = "noop"
    /\ ~config.dry_run
    /\ last.name \notin hooks
    /\ hook_failures > 0
    /\ mode = USER


----------------------------------------------------------------------------
(* The run loop: interrupts, teardown, order of events *)

\* The positions of events at which e was called
PositionsOf(e) == {p \in 1..Len(events) : events[p].e = e}

\* The positions at which feature.run let a KeyboardInterrupt through
Interrupts == {p \in PositionsOf("run") : events[p].r = "interrupt"}

\* Feature i was passed to every reporter after position p
ReportedAfter(i, p) ==
    \A k \in 1..Len(Reporters) :
        \E q \in (p + 1)..Len(events) : events[q] = Event("report", i, k, "-")

\* run_model was left by an exception
Propagated == pc = "raised"

\* C23: after feature.run let a KeyboardInterrupt through, the abort flag is
\* set, the feature is counted in failed_count, no later feature is run or
\* announced while each one visited is reported, and run_model goes on: it is
\* left by an exception only if a hook lets an interrupt through, and when it
\* returns after_all was dispatched, the root cleanups drained, and the value
\* returned is true.
C23_InterruptedFeature ==
    \A p \in Interrupts :
        /\ AbortFlag(stack) = 1
        /\ RootAbortFlag(stack) = 1
        /\ loc.failed_count =
               Cardinality({q \in PositionsOf("run") : events[q].r # "passed"})
        /\ \A q \in (p + 1)..Len(events) : events[q].e \notin {"run", "uri"}
        /\ \A i \in events[p].f..Visited : ReportedAfter(i, p)
        /\ Propagated => /\ events[Len(events)].e = "after_all"
                         /\ events[Len(events)].r = "interrupt"
        /\ Returned => /\ loc.failed
                       /\ Visited = features
                       /\ \E q \in PositionsOf("after_all") : q > p
                       /\ \E q \in PositionsOf("do_cleanups") : q > p

C23_Witness ==
    /\ Returned
    /\ features = 2
    /\ events[4] = Event("run", 1, 0, "interrupt")
    /\ PositionsOf("run") = {4}
    /\ loc.failed_count = 1
    /\ hook_failures = 0
    /\ loc.failed

\* C24: the drain of the root cleanups leaves the stack alone (the root frame
\* stays and its attributes stay readable) and run_model goes on to close the
\* formatters and end the reporters; when the drain raised (a cleanup failed
\* under fail_on_cleanup_errors) cleanups_failed is set and run_model returns
\* true.
C24_RootDrain ==
    /\ pc \in {"closing", "done"} =>
          /\ Len(stack) = 1
          /\ Getattr(stack, "aborted").out = "ok"
          /\ Getattr(stack, "feature").out = "ok"
          /\ loc.cleanups_failed <=>
                 (fail_on_cleanup_errors /\ cleanup_errors > 0)
    /\ pc = "closing" =>
          /\ last.calls = RegisteredLatestFirst
          /\ cleanup_errors = Len(last.handled)
    /\ Returned =>
          /\ (fail_on_cleanup_errors /\ cleanup_errors > 0) => loc.failed
          /\ \A k \in 1..Len(Formatters) :
                Cardinality({p \in PositionsOf("close") : events[p].k = k}) = 1
          /\ \A k \in 1..Len(Reporters) :
                Cardinality({p \in PositionsOf("end") : events[p].k = k}) = 1
          /\ \A p \in PositionsOf("close") \cup PositionsOf("end") :
                \A q \in PositionsOf("do_cleanups") : q < p

C24_Witness ==
    /\ Returned
    /\ fail_on_cleanup_errors
    /\ cleanup_errors = 1
    /\ loc.cleanups_failed
    /\ loc.failed
    /\ loc.failed_count = 0
    /\ hook_failures = 0
    /\ AbortFlag(stack) = 0
    /\ undefined_steps = loc.undefined_steps_initial_size
    /\ Len(stack) = 1

\* C28: before_all is dispatched once, before any feature is run; after_all
\* is dispatched once, after the last report, also when the run is aborted or
\* before_all failed; the root cleanups are drained once, after after_all,
\* and the cleanups after_all registered are among those called; then every
\* formatter is closed and every reporter ended, once each, and nothing else
\* happens before run_model returns.
C28_EventOrder ==
    /\ Len(events) >= 2 => events[2].e = "before_all"
    /\ PositionsOf("before_all") \subseteq {2}
    /\ \A p \in PositionsOf("run") \cup PositionsOf("uri")
                \cup PositionsOf("report") :
          /\ p > 2
          /\ \A q \in PositionsOf("after_all") : p < q
    /\ pc \in {"cleanups", "closing", "done"} =>
          /\ Cardinality(PositionsOf("after_all")) = 1
          /\ Visited = features
    /\ pc \in {"closing", "done"} =>
          /\ Cardinality(PositionsOf("do_cleanups")) = 1
          /\ \A p \in PositionsOf("do_cleanups") :
                events[p - 1].e = "after_all"
    /\ pc = "closing" => last.calls = RegisteredLatestFirst
    /\ Returned =>
          LET n == Len(events)
              c == Len(Formatters) + Len(Reporters)
          IN /\ events[n - c].e = "do_cleanups"
             /\ \A k \in 1..Len(Formatters) :
                   events[n - c + k] = Event("close", 0, k, "-")
             /\ \A k \in 1..Len(Reporters) :
                   events[n - Len(Reporters) + k] = Event("end", 0, k, "-")

\* after_all ran although before_all had failed, and the cleanup it
\* registered was called after the one before_all registered
C28_Witness ==
    /\ pc = "closing"
    /\ BeforeAllRaised
    /\ features = 1
    /\ Len(last.calls) = 2
    /\ AbortFlag(stack) = 1
    /\ events[Len(events) - 1].e = "after_all"

\* C29: by the time before_all is dispatched the capture controller has been
\* set up and then started.
C29_CaptureStarted ==
    \A p \in PositionsOf("before_all") :
        \E q \in PositionsOf("setup_capture") :
            \E r \in PositionsOf("start_capture") : q < r /\ r < p

\* C30: a feature boundary reached with the abort flag set is followed by no
\* run of a feature, and no step of run_model clears the flag.
C30_AbortIsSticky ==
    [][/\ (pc = "features" /\ AbortFlag(stack) = 1
           /\ loc'.idx = loc.idx + 1) =>
              \A p \in 1..Len(events') :
                  ~(events'[p].e = "run" /\ events'[p].f = loc.idx)
       /\ AbortFlag(stack) = 1 => AbortFlag(stack') = 1]_vars


----------------------------------------------------------------------------
(* Reserved names; the root attribute; empty frames *)

\* C25: no frame ever holds a name with the reserved prefix; assigning such
\* a name changes the table of the object only (no frame, no provenance, no
\* origin) and issues no warning at any depth; reading it answers from that
\* table, as does the membership test; push and pop leave the table alone.
C25_ReservedNamesBypassFrames ==
    [][/\ \A i \in 1..Len(stack') :
             DOMAIN stack'[i].vals \cap ReservedNames = {}
       /\ (last'.name \in ReservedNames /\ last'.op = "set") =>
             /\ last'.out = "ok"
             /\ last'.warns = <<>>
             /\ UNCHANGED <<stack, record, origin>>
             /\ last'.name \in DOMAIN dict'
             /\ dict'[last'.name] = last'.val
             /\ \A m \in DOMAIN dict \ {last'.name} :
                   m \in DOMAIN dict' /\ dict'[m] = dict[m]
       /\ (last'.name \in ReservedNames /\ last'.op = "get") =>
             IF last'.name \in DOMAIN dict
             THEN last'.out = "ok" /\ last'.val = dict[last'.name]
             ELSE last'.out = "AttributeError"
       /\ (last'.name \in ReservedNames /\ last'.op = "contains") =>
             (last'.val = 1 <=> last'.name \in DOMAIN dict)
       /\ last'.op \in {"push", "pop"} => dict' = dict]_vars

C25_Witness ==
    /\ last.op = "pop"
    /\ Len(stack) = 1
    /\ mode = USER
    /\ "_y" \in DOMAIN dict
    /\ dict["_y"] = 1
    /\ InFrame0(stack, "x")


\* C26: _set_root_attribute(n, v) at any depth puts v in the last frame of
\* the stack and changes no other frame, so the value is what the root holds
\* once the inner frames are popped.
C26_RootAttributeLands ==
    [][last'.op = "set_root" =>
         /\ last'.out = "ok"
         /\ Len(stack') = Len(stack)
         /\ stack'[Len(stack')].vals[last'.name] = last'.val
         /\ \A i \in 1..(Len(stack) - 1) : stack'[i] = stack[i]]_vars

\* C27: a push adds one empty frame and a pop of a frame nothing was written
\* to removes it again; across either step every name reads as before (same
\* value or same failure) and is contained as before, and the frames beneath
\* are the same.
C27_EmptyFrameIsTransparent ==
    [][/\ last'.op = "push" =>
             /\ Len(stack') = Len(stack) + 1
             /\ stack'[1].vals = EmptyVals
             /\ Tail(stack') = stack
             /\ \A n \in Names :
                   /\ Getattr(stack', n) = Getattr(stack, n)
                   /\ InSomeFrame(stack', n) <=> InSomeFrame(stack, n)
       /\ (last'.op = "pop" /\ stack[1].vals = EmptyVals) =>
             /\ last'.out = "ok"
             /\ stack' = Tail(stack)
             /\ \A n \in Names :
                   /\ Getattr(stack', n) = Getattr(stack, n)
                   /\ InSomeFrame(stack', n) <=> InSomeFrame(stack, n)
             /\ UNCHANGED <<record, origin, mode>>]_vars

C27_Witness ==
    /\ last.op = "pop"
    /\ Len(stack) = 2
    /\ InFrame0(stack, "x")
    /\ Getattr(stack, "x").val = 1
    /\ stack[2].vals["aborted"] = 1

----------------------------------------------------------------------------
(* Ownership of cleanups *)

\* The entries of a frame's cleanup list, latest first
LatestFirst(frame) ==
    [k \in 1..Len(frame.cleanups) |->
        frame.cleanups[Len(frame.cleanups) + 1 - k]]

\* C31: a cleanup action registered with add_cleanup belongs to the frame
\* that was innermost at registration time: every pending entry sits in the
\* frame at the depth at which it was registered, add_cleanup changes no
\* other frame, a new frame starts without entries, and a drain (the pop of a
\* frame, or the drain of the root frame at the end of run_model) invokes all
\* entries of the drained frame, only these, and leaves the entries of every
\* other frame pending.
C31_CleanupBelongsToItsFrame ==
    [][/\ \A i \in 1..Len(stack') : \A k \in 1..Len(stack'[i].cleanups) :
              stack'[i].cleanups[k].owner = Len(stack') + 1 - i
       /\ last'.op = "add_cleanup" =>
              /\ Len(stack') = Len(stack)
              /\ \A i \in 2..Len(stack) : stack'[i] = stack[i]
              /\ \E k \in 1..Len(stack'[1].cleanups) :
                     /\ stack'[1].cleanups[k].f = last'.name
                     /\ stack'[1].cleanups[k].owner = Len(stack)
       /\ last'.op = "push" =>
              /\ stack'[1].cleanups = <<>>
              /\ Tail(stack') = stack
       /\ last'.op \in {"pop", "do_cleanups"} =>
              /\ Len(last'.calls) = Len(stack[1].cleanups)
              /\ \A k \in 1..Len(last'.calls) :
                     /\ last'.calls[k] = LatestFirst(stack[1])[k].f
                     /\ LatestFirst(stack[1])[k].owner = Len(stack)
              /\ stack' = IF last'.op = "pop" THEN Tail(stack) ELSE stack]_vars

\* A frame of depth 3 was drained and called its own cleanup; the one of the
\* root frame is still pending.
C31_Witness ==
    /\ last.op = "pop"
    /\ Len(stack) = 2
    /\ last.calls = <<"bad1">>
    /\ stack[1].cleanups = <<>>
    /\ Len(stack[2].cleanups) = 1
    /\ stack[2].cleanups[1].f = "ok"

\* The root frame was drained in place and called its own two cleanups.
C31_WitnessRoot ==
    /\ last.op = "do_cleanups"
    /\ Len(last.calls) = 2
    /\ Len(stack[1].cleanups) = 2

----------------------------------------------------------------------------
(* The origin mapping *)

\* The operation was a write that stored its value
Wrote(obs) == obs.op \in {"set", "set_root"} /\ obs.out = "ok"

\* C32: the origin mode of an attribute name is recorded at the first write
\* of that name and never changes afterwards: a name has an origin after
\* every write of it, an origin appears only with a write of the name and is
\* the mode of that write, and no operation (a later write in the other mode,
\* a delete, a pop of the frame that held the name) changes or removes a
\* recorded origin.
C32_OriginIsFirstWriter ==
    [][/\ \A n \in DOMAIN origin :
              n \in DOMAIN origin' /\ origin'[n] = origin[n]
       /\ \A n \in (DOMAIN origin') \ (DOMAIN origin) :
              Wrote(last') /\ last'.name = n /\ origin'[n] = mode
       /\ Wrote(last') => last'.name \in DOMAIN origin']_vars

\* "x" was first written in user mode in an inner frame, written again in
\* behave mode, and its frame was popped: no frame holds it, the origin stays.
C32_Witness ==
    /\ last.op = "pop"
    /\ "x" \in DOMAIN origin
    /\ origin["x"] = USER
    /\ mode = BEHAVE
    /\ \A i \in 1..Len(stack) : "x" \notin DOMAIN stack[i].vals

\* A write in behave mode of a name whose origin is the user
C32_WitnessRewrite ==
    /\ last.op = "set"
    /\ last.out = "ok"
    /\ last.name = "x"
    /\ mode = BEHAVE
    /\ origin["x"] = USER

----------------------------------------------------------------------------
(* execute_steps *)

\* The value a read of the name gives, 0 (None) when no frame holds it
Read(stk, n) ==
    IF \E i \in 1..Len(stk) : n \in DOMAIN stk[i].vals
    THEN stk[CHOOSE i \in 1..Len(stk) :
                 /\ n \in DOMAIN stk[i].vals
                 /\ \A j \in 1..(i - 1) : n \notin DOMAIN stk[j].vals].vals[n]
    ELSE 0

\* The sub-steps are run in order in BEHAVE mode up to the first one that
\* does not pass, which raises an assertion failure; outside a feature
\* ValueError is raised and no sub-step is run.
RanInOrder ==
    IF Read(stack, "feature") = 0
    THEN last'.out = "ValueError" /\ last'.calls = <<>>
    ELSE /\ \A k \in 1..Len(last'.calls) :
               /\ last'.calls[k].step = k
               /\ last'.calls[k].mode = BEHAVE
               /\ k < Len(last'.calls) => last'.calls[k].passed
         /\ Len(last'.calls) <= last'.val
         /\ IF \E k \in 1..Len(last'.calls) : ~last'.calls[k].passed
            THEN last'.out = "AssertionError"
            ELSE last'.out = "True" /\ Len(last'.calls) = last'.val

\* The mode of the store is the one before the call.
ModeKept == mode' = mode

\* text and table read as they did before the call.
TextAndTableKept ==
    \A n \in {"table", "text"} : Read(stack', n) = Read(stack, n)

\* C33: execute_steps runs the parsed sub-steps in order in BEHAVE mode and
\* stops at the first sub-step that does not pass by raising an assertion
\* failure; called outside a feature it raises ValueError without running any
\* step; in every outcome the mode of the store, the table and the text are
\* restored to the values they had before the call.
C33_ExecuteSteps ==
    [][last'.op = "execute_steps" =>
          RanInOrder /\ ModeKept /\ TextAndTableKept]_vars

\* Order, stop and mode of execute_steps, and the restoring of text and
\* table when it returns or raises ValueError
ExecuteStepsUnlessFailed ==
    [][last'.op = "execute_steps" =>
          /\ RanInOrder
          /\ ModeKept
          /\ last'.out # "AssertionError" => TextAndTableKept]_vars

\* Two sub-steps that assigned text and table passed, in user mode, with
\* a table that differs from what the last sub-step assigned
C33_WitnessPassed ==
    /\ last.op = "execute_steps"
    /\ last.out = "True"
    /\ Len(last.calls) = 2
    /\ mode = USER
    /\ Len(stack) = 2
    /\ Read(stack, "table") = 1
    /\ Read(stack, "text") = 0

====
